---- MODULE Spec2Model ----
(***************************************************************************)
(* The CF (Content Fragment) block of blocks/cf/cf.js: the identifier      *)
(* resolver getCfJsonUrl, the origin lookup getCfApiOrigin, the response   *)
(* extractor fetchCfData, the renderer renderValue / renderCfData and the  *)
(* render cycle decorate.                                                  *)
(*                                                                         *)
(* A JavaScript string is a sequence of one-character strings, so that     *)
(* startsWith, endsWith, includes, split, slice and the regular            *)
(* expressions of the source are computed character by character.          *)
(***************************************************************************)
EXTENDS Integers, Sequences, FiniteSets, TLC

\* ------------------------------------------------------------------------
\* Bounds of the model
\* ------------------------------------------------------------------------

\* How many suffixes (.html, .plain, .model.json, ...) an enumerated
\* identifier stacks after its stem.
MaxSuffixes == 2

\* How many CF block instances the page of SpecPage carries.
NumBlocks == 2

\* ------------------------------------------------------------------------
\* String literals of the source, as character sequences
\* ------------------------------------------------------------------------

Null == <<"<null>">>

DotHtml == <<".", "h", "t", "m", "l">>

DotPlainHtml == <<".", "p", "l", "a", "i", "n", ".", "h", "t", "m", "l">>

DotModelJson == <<".", "m", "o", "d", "e", "l", ".", "j", "s", "o", "n">>

DotJson == <<".", "j", "s", "o", "n">>

damPrefix == <<"/", "c", "o", "n", "t", "e", "n", "t", "/", "d", "a", "m", "/">>

ApiAssets == <<"/", "a", "p", "i", "/", "a", "s", "s", "e", "t", "s", "/">>

Http == <<"h", "t", "t", "p">>

HttpScheme == <<"h", "t", "t", "p", ":", "/", "/">>

HttpsScheme == <<"h", "t", "t", "p", "s", ":", "/", "/">>

TrueText == <<"t", "r", "u", "e">>

FalseText == <<"f", "a", "l", "s", "e">>

Properties == <<"p", "r", "o", "p", "e", "r", "t", "i", "e", "s">>

Model == <<"m", "o", "d", "e", "l">>

Elements == <<"e", "l", "e", "m", "e", "n", "t", "s">>

\* ------------------------------------------------------------------------
\* String operations of JavaScript used by the source
\* ------------------------------------------------------------------------

UpperLower ==
    [A |-> "a", B |-> "b", C |-> "c", D |-> "d", E |-> "e", F |-> "f",
     G |-> "g", H |-> "h", I |-> "i", J |-> "j", K |-> "k", L |-> "l",
     M |-> "m", N |-> "n", O |-> "o", P |-> "p", Q |-> "q", R |-> "r",
     S |-> "s", T |-> "t", U |-> "u", V |-> "v", W |-> "w", X |-> "x",
     Y |-> "y", Z |-> "z"]

toLowerCase(s) ==
    [i \in 1..Len(s) |-> IF s[i] \in DOMAIN UpperLower THEN UpperLower[s[i]] ELSE s[i]]

startsWith(s, p) == Len(s) >= Len(p) /\ SubSeq(s, 1, Len(p)) = p

endsWith(s, p) == Len(s) >= Len(p) /\ SubSeq(s, Len(s) - Len(p) + 1, Len(s)) = p

\* The positions at which p occurs in s.
Occurrences(s, p) ==
    {i \in 1..(Len(s) - Len(p) + 1) : SubSeq(s, i, i + Len(p) - 1) = p}

includes(s, p) == Occurrences(s, p) # {}

SetMin(S) == CHOOSE x \in S : \A y \in S : x <= y

SetMax(S) == CHOOSE x \in S : \A y \in S : x >= y

IsSpace(c) == c \in {" ", "\t", "\n"}

trim(s) ==
    LET keep == {i \in 1..Len(s) : ~IsSpace(s[i])}
    IN  IF keep = {} THEN <<>> ELSE SubSeq(s, SetMin(keep), SetMax(keep))

\* s.split(c)[0]: the text before the first occurrence of the character c.
splitFirst(s, c) ==
    LET at == {i \in 1..Len(s) : s[i] = c}
    IN  IF at = {} THEN s ELSE SubSeq(s, 1, SetMin(at) - 1)

\* s.replace(/\/+$/, ''): the trailing run of slashes removed.
stripTrailingSlashes(s) ==
    LET keep == {i \in 1..Len(s) : s[i] # "/"}
    IN  IF keep = {} THEN <<>> ELSE SubSeq(s, 1, SetMax(keep))

\* s.replace(/^.*\/content\/dam\//i, ''): the greedy .* runs to the last
\* occurrence of the segment, matched without regard to case.
stripThroughDam(s) ==
    LET at == Occurrences(toLowerCase(s), damPrefix)
    IN  IF at = {} THEN s ELSE SubSeq(s, SetMax(at) + Len(damPrefix), Len(s))

\* s.replace(/\.model\.json$/i, '')
stripModelJson(s) ==
    IF endsWith(toLowerCase(s), DotModelJson)
    THEN SubSeq(s, 1, Len(s) - Len(DotModelJson))
    ELSE s

\* s.slice(0, -n)
sliceEnd(s, n) == SubSeq(s, 1, Len(s) - n)

\* ------------------------------------------------------------------------
\* The URL class, for the http and https URLs and the relative references
\* the model's inputs hold (no other scheme, no dot segment, no backslash,
\* no character that is percent-encoded).
\* ------------------------------------------------------------------------

NotAUrl == [ok |-> FALSE, scheme |-> <<>>, host |-> <<>>, pathname |-> <<>>]

\* new URL(s): fails unless s is scheme://host[/path]; the host is lowered,
\* an empty path is "/", the query and the fragment are kept apart.
NewURL(s) ==
    LET scheme == IF startsWith(toLowerCase(s), HttpsScheme) THEN HttpsScheme
                  ELSE IF startsWith(toLowerCase(s), HttpScheme) THEN HttpScheme
                  ELSE <<>>
        rest == SubSeq(s, Len(scheme) + 1, Len(s))
        noHash == splitFirst(rest, "#")
        noQuery == splitFirst(noHash, "?")
        host == splitFirst(noQuery, "/")
        path == SubSeq(noQuery, Len(host) + 1, Len(noQuery))
    IN  IF scheme = <<>> \/ host = <<>>
        THEN NotAUrl
        ELSE [ok |-> TRUE, scheme |-> scheme, host |-> toLowerCase(host),
              pathname |-> IF path = <<>> THEN <<"/">> ELSE path]

\* u.origin
originOf(u) == u.scheme \o u.host

\* u.href once u.search and u.hash are empty
hrefOf(u) == u.scheme \o u.host \o u.pathname

\* new URL(rel, base).href, or Null where the constructor throws (the base
\* is no URL).  An absolute rel stands as it is; a rel that starts with a
\* slash replaces the base's path; any other replaces its last segment.
NewURLWithBase(rel, base) ==
    LET b == NewURL(base)
        r == NewURL(rel)
        slashes == {i \in 1..Len(b.pathname) : b.pathname[i] = "/"}
        dir == SubSeq(b.pathname, 1, SetMax(slashes))
    IN  IF ~b.ok THEN Null
        ELSE IF r.ok THEN hrefOf(r)
        ELSE IF startsWith(rel, <<"/">>) THEN originOf(b) \o rel
        ELSE originOf(b) \o dir \o rel

\* ------------------------------------------------------------------------
\* getCfJsonUrl (cf.js 56-86)
\* ------------------------------------------------------------------------

\* Lines 60-62: query, fragment and trailing slashes go, then one suffix.
\* The .html test comes first, as in the source.
normalisePath(raw) ==
    LET path == stripTrailingSlashes(splitFirst(splitFirst(raw, "?"), "#"))
    IN  IF endsWith(toLowerCase(path), DotHtml) THEN sliceEnd(path, 5)
        ELSE IF endsWith(toLowerCase(path), DotPlainHtml) THEN sliceEnd(path, 11)
        ELSE path

\* Lines 84-85 without the test for a suffix that is already there.
modelJsonUrlAlwaysAppends(path) == path \o DotModelJson

\* Lines 84-85
modelJsonUrl(path) ==
    IF endsWith(path, DotModelJson) THEN path
    ELSE stripModelJson(path) \o DotModelJson

\* Lines 71-82: the URL branch; Null when it does not return.
fullUrlToDam(path) ==
    LET u == NewURL(path)
        damPath == stripModelJson(stripThroughDam(u.pathname))
    IN  IF u.ok /\ includes(u.pathname, damPrefix)
        THEN hrefOf([u EXCEPT !.pathname = ApiAssets \o damPath \o DotJson])
        ELSE Null

\* Lines 65-69: the DAM branch; Null when it does not return.
damAssetsUrl(path) ==
    LET damPath == stripModelJson(stripThroughDam(path))
    IN  IF (startsWith(path, damPrefix) \/ includes(path, damPrefix)) /\ damPath # <<>>
        THEN ApiAssets \o damPath \o DotJson
        ELSE Null

getCfJsonUrl(productIdOrPath) ==
    LET raw == trim(IF productIdOrPath = Null THEN <<>> ELSE productIdOrPath)
        path == normalisePath(raw)
        dam == damAssetsUrl(path)
        full == fullUrlToDam(path)
    IN  IF raw = <<>> THEN Null
        ELSE IF dam # Null THEN dam
        ELSE IF full # Null THEN full
        ELSE modelJsonUrl(path)

\* ------------------------------------------------------------------------
\* JSON values, as JSON.parse yields them.  t is the type; n holds a number
\* or a boolean (1, 0), s a string, k the keys of an object in
\* Object.entries order and e the members of an object or an array.
\* ------------------------------------------------------------------------

JNull == [t |-> "null", n |-> 0, s |-> <<>>, k |-> <<>>, e |-> <<>>]

JStr(str) == [t |-> "string", n |-> 0, s |-> str, k |-> <<>>, e |-> <<>>]

JNum(num) == [t |-> "number", n |-> num, s |-> <<>>, k |-> <<>>, e |-> <<>>]

JBool(b) == [t |-> "boolean", n |-> IF b THEN 1 ELSE 0, s |-> <<>>, k |-> <<>>, e |-> <<>>]

JArr(elems) == [t |-> "array", n |-> 0, s |-> <<>>, k |-> <<>>, e |-> elems]

JObj(keys, vals) == [t |-> "object", n |-> 0, s |-> <<>>, k |-> keys, e |-> vals]

\* typeof v === 'object' && v !== null
isObject(v) == v.t \in {"object", "array"}

DigitChars == <<"0", "1", "2", "3", "4", "5", "6", "7", "8", "9">>

RECURSIVE Digits(_)
\* String(n) of a non-negative integer
Digits(n) ==
    IF n < 10 THEN <<DigitChars[n + 1]>>
    ELSE Digits(n \div 10) \o <<DigitChars[(n % 10) + 1]>>

\* Object.keys(v): the keys of an object, the indices of an array.
objectKeys(v) ==
    IF v.t = "array" THEN [i \in 1..Len(v.e) |-> Digits(i - 1)] ELSE v.k

\* v[key] for an own property; JNull stands for undefined as well, which
\* the ?? of the source does not tell from null.
getProperty(v, key) ==
    LET at == {i \in 1..Len(v.k) : v.k[i] = key}
    IN  IF v.t = "object" /\ at # {} THEN v.e[SetMin(at)] ELSE JNull

RECURSIVE join(_, _)
\* parts.join(sep)
join(parts, sep) ==
    IF parts = <<>> THEN <<>>
    ELSE IF Len(parts) = 1 THEN parts[1]
    ELSE parts[1] \o sep \o join(Tail(parts), sep)

\* ------------------------------------------------------------------------
\* renderValue (cf.js 24-36)
\* ------------------------------------------------------------------------

RECURSIVE renderValue(_)
renderValue(value) ==
    CASE value.t = "null" -> <<>>
      [] value.t = "string" -> value.s
      [] value.t = "number" -> Digits(value.n)
      [] value.t = "boolean" -> IF value.n = 1 THEN TrueText ELSE FalseText
      [] value.t = "array" ->
            join([i \in 1..Len(value.e) |-> renderValue(value.e[i])], <<",", " ">>)
      [] value.t = "object" ->
            join([i \in 1..Len(value.e) |->
                     value.k[i] \o <<":", " ">> \o renderValue(value.e[i])],
                 <<";", " ">>)

\* ------------------------------------------------------------------------
\* The DOM: an element with its class, its own text, its href and its
\* children.
\* ------------------------------------------------------------------------

Element(tag, cls, text, href, kids) ==
    [tag |-> tag, cls |-> cls, text |-> text, href |-> href, kids |-> kids]

\* ------------------------------------------------------------------------
\* renderCfData (cf.js 124-152)
\* ------------------------------------------------------------------------

\* Line 138 testing the rendered text in place of the value's type.
isLinkValueByText(value) ==
    startsWith(renderValue(value), Http) \/ startsWith(renderValue(value), <<"/">>)

\* Line 138: the value is shown as a link.
isLinkValue(value) ==
    value.t = "string" /\ (startsWith(value.s, Http) \/ startsWith(value.s, <<"/">>))

\* Lines 129-148: the dt and dd of one entry, none when the text is empty.
renderEntry(key, value) ==
    LET text == renderValue(value)
        dt == Element("dt", "cf-data-key", key, <<>>, <<>>)
        dd == IF isLinkValue(value)
              THEN Element("dd", "cf-data-value", <<>>, <<>>,
                           <<Element("a", "", value.s, value.s, <<>>)>>)
              ELSE Element("dd", "cf-data-value", text, <<>>, <<>>)
    IN  IF text = <<>> THEN <<>> ELSE <<dt, dd>>

RECURSIVE renderEntries(_, _)
renderEntries(keys, vals) ==
    IF keys = <<>> THEN <<>>
    ELSE renderEntry(keys[1], vals[1]) \o renderEntries(Tail(keys), Tail(vals))

\* The dl appended to the container.
renderCfData(data) ==
    Element("dl", "cf-data", <<>>, <<>>, renderEntries(objectKeys(data), data.e))

\* ------------------------------------------------------------------------
\* fetchCfData (cf.js 93-117)
\* ------------------------------------------------------------------------

Undefined == <<"<undefined>">>

\* Line 110: the message of an empty response.
EmptyResponse == <<"<response is empty>">>

\* Line 115: the prefix of a caught exception's message.
FetchErrorPrefix == <<"<fetch error>", ":", " ">>

HttpText == <<"H", "T", "T", "P", " ">>

\* Line 97: resp.ok
respOk(status) == 200 <= status /\ status <= 299

\* Lines 98-101 with the status alone in the message.
httpFailureWithoutUrl(status, resolvedUrl) ==
    [data |-> JNull, error |-> HttpText \o Digits(status)]

\* Lines 98-101
httpFailure(status, resolvedUrl) ==
    [data |-> JNull,
     error |-> HttpText \o Digits(status) \o <<" ", "(">> \o resolvedUrl \o <<")">>]

\* Lines 111-115
caughtFailure(message) == [data |-> JNull, error |-> FetchErrorPrefix \o message]

\* Line 106: data.properties ?? data.model ?? data.elements ?? data
selectPayload(data) ==
    IF getProperty(data, Properties) # JNull THEN getProperty(data, Properties)
    ELSE IF getProperty(data, Model) # JNull THEN getProperty(data, Model)
    ELSE IF getProperty(data, Elements) # JNull THEN getProperty(data, Elements)
    ELSE data

\* Line 107 without the fallback to the raw payload.
payloadObjectWithoutFallback(data) == selectPayload(data)

\* Line 107
payloadObject(data) ==
    IF isObject(selectPayload(data)) THEN selectPayload(data) ELSE data

\* Lines 104-110: what a parsed body becomes.
extractData(data) ==
    IF isObject(data) /\ Len(objectKeys(payloadObject(data))) > 0
    THEN [data |-> payloadObject(data), error |-> Undefined]
    ELSE [data |-> JNull, error |-> EmptyResponse]

\* ------------------------------------------------------------------------
\* getCfApiOrigin (cf.js 43-47)
\* ------------------------------------------------------------------------

\* metaContent is the content of meta[name="cf-api-origin"], Null when the
\* page has no such element.
getCfApiOrigin(metaContent, locationOrigin) ==
    IF metaContent # Null /\ trim(metaContent) # <<>>
    THEN stripTrailingSlashes(trim(metaContent))
    ELSE locationOrigin

\* ------------------------------------------------------------------------
\* decorate (cf.js 158-202): the pure parts
\* ------------------------------------------------------------------------

RECURSIVE textContent(_)
\* el.textContent of a list of nodes
textContent(nodes) ==
    IF nodes = <<>> THEN <<>>
    ELSE nodes[1].text \o textContent(nodes[1].kids) \o textContent(Tail(nodes))

RECURSIVE querySelectorAll(_, _)
\* The descendants with the given tag, in document order.
querySelectorAll(nodes, tag) ==
    IF nodes = <<>> THEN <<>>
    ELSE (IF nodes[1].tag = tag THEN <<nodes[1]>> ELSE <<>>)
         \o querySelectorAll(nodes[1].kids, tag)
         \o querySelectorAll(Tail(nodes), tag)

\* Lines 161-163
readProductID(children) ==
    LET divs == querySelectorAll(children, "div")
        links == querySelectorAll(children, "a")
    IN  IF links # <<>> THEN links[1].href
        ELSE IF divs # <<>> THEN trim(divs[1].text \o textContent(divs[1].kids))
        ELSE <<>>

\* Line 167; Thrown where new URL throws.
Thrown == <<"<thrown>">>

resolveAbsoluteUrl(url, baseOrigin) ==
    IF url = Null THEN Null
    ELSE IF startsWith(url, Http) THEN url
    ELSE IF NewURLWithBase(url, baseOrigin) = Null THEN Thrown
    ELSE NewURLWithBase(url, baseOrigin)

\* Line 94, fetchCfData's own resolution; Thrown where new URL throws.
resolveFetchUrl(url, locationOrigin) ==
    IF startsWith(url, Http) THEN url
    ELSE IF NewURLWithBase(url, locationOrigin) = Null THEN Thrown
    ELSE NewURLWithBase(url, locationOrigin)

\* Line 174
PromptMessage == <<"<enter a productID, a CF path or a URL>">>

\* Line 185
ErrorMessage == <<"<the CF data could not be fetched>">>

Paragraph(cls, text) == Element("p", cls, text, <<>>, <<>>)

\* Lines 173-175
promptOutput == <<Paragraph("", PromptMessage)>>

\* Lines 184-194; the brackets around the reason are full-width in the source.
errorOutput(result, absUrl) ==
    <<Paragraph("", ErrorMessage)>>
    \o (IF result.error # Undefined
        THEN <<Paragraph("cf-error-detail", <<"(">> \o result.error \o <<")">>)>>
        ELSE <<>>)
    \o <<Paragraph("cf-error-url", <<"U", "R", "L", ":", " ">> \o absUrl)>>

\* Lines 198-201
contentOutput(data) == <<Element("div", "cf-content", <<>>, <<>>, <<renderCfData(data)>>)>>

\* Line 182
noData(data) == data = JNull \/ Len(objectKeys(data)) = 0

\* ------------------------------------------------------------------------
\* Inputs: identifiers
\* ------------------------------------------------------------------------

Sku == <<"s", "k", "u">>

UsPath == <<"/", "u", "s", "/">>

AuthorUrl == <<"h", "t", "t", "p", "s", ":", "/", "/", "A", "u", "t", "h", "o", "r", ".", "e", "x", "a", "m", "p", "l", "e">>

\* What an identifier starts with: nothing (a bare ID), the letters http
\* (a bare ID, no URL), a site path, the asset-content segment at the root,
\* below a folder and in other case, and an absolute URL without and with
\* the segment.
Bases ==
    {<<>>, Http, UsPath, damPrefix, <<"/", "u", "s">> \o damPrefix,
     <<"/", "C", "o", "n", "t", "e", "n", "t", "/", "D", "a", "m", "/">>,
     AuthorUrl \o UsPath, AuthorUrl \o damPrefix}

Stems == {<<>>, Sku}

Suffixes ==
    {DotHtml, <<".", "p", "l", "a", "i", "n">>, DotModelJson,
     <<".", "H", "T", "M", "L">>,
     <<".", "M", "o", "d", "e", "l", ".", "J", "s", "o", "n">>}

RECURSIVE SuffixStacks(_)
\* The concatenations of at most n suffixes.
SuffixStacks(n) ==
    IF n = 0 THEN {<<>>}
    ELSE SuffixStacks(n - 1) \cup {s \o x : s \in SuffixStacks(n - 1), x \in Suffixes}

Slashes == {<<>>, <<"/">>}

Tails == {<<>>, <<"?", "q", "=", "1">>, <<"#", "f">>}

Pads == {<<>>, <<" ">>}

\* The identifiers getCfJsonUrl is called with under SpecResolve.
Identifiers ==
    {lead \o base \o stem \o sfx \o slash \o tail \o trail :
        lead \in Pads, trail \in Pads, base \in Bases, stem \in Stems,
        sfx \in SuffixStacks(MaxSuffixes), slash \in Slashes, tail \in Tails}

\* The identifiers authored into the blocks of a page.
PageIdentifiers ==
    {<<>>, <<" ">>, Sku, Http \o Sku, UsPath \o Sku \o DotHtml,
     damPrefix \o Sku,
     AuthorUrl \o damPrefix \o Sku \o DotModelJson \o <<"?", "q", "=", "1">>,
     AuthorUrl \o UsPath \o Sku}

\* window.location.origin
PageOrigin == <<"h", "t", "t", "p", "s", ":", "/", "/", "w", "w", "w", ".", "e", "x", "a", "m", "p", "l", "e">>

\* The content of the cf-api-origin meta element: none, blank, an origin
\* with trailing slashes, a host name without a scheme.
MetaContents ==
    {Null, <<" ">>, <<" ", "h", "t", "t", "p", "s", ":", "/", "/", "a", "p", "i", ".", "e", "x", "a", "m", "p", "l", "e", "/", "/", " ">>,
     <<"a", "p", "i", ".", "e", "x", "a", "m", "p", "l", "e">>}

\* ------------------------------------------------------------------------
\* Inputs: responses
\* ------------------------------------------------------------------------

\* How many keys an enumerated record holds at most.
MaxKeys == 2

Hi == <<"H", "i">>

FooPath == <<"/", "f", "o", "o">>

KeyNames == <<<<"t", "i", "t", "l", "e">>, <<"l", "i", "n", "k">>, <<"p", "r", "i", "c", "e">>, <<"n", "o", "t", "e">>>>

\* The values a record's key may hold.
FieldValues ==
    {JNull, JStr(<<>>), JStr(Hi), JStr(FooPath), JStr(<<"h", "t", "t", "p", ":", "/", "/", "x">>),
     JNum(0), JNum(10), JBool(FALSE),
     JArr(<<>>), JArr(<<JNull>>), JArr(<<JStr(FooPath), JNum(1)>>),
     JObj(<<>>, <<>>), JObj(<<<<"a">>>>, <<JStr(Hi)>>)}

\* The flat records of at most n keys.
Records(n) ==
    UNION {{JObj(SubSeq(KeyNames, 1, m), vals) : vals \in [1..m -> FieldValues]} : m \in 0..n}

WrapperKeys == {Properties, Model, Elements}

\* What a wrapper key may hold beside another wrapper key.
SmallValues ==
    {JNull, JStr(Hi), JNum(0), JObj(<<>>, <<>>), JObj(<<KeyNames[1]>>, <<JStr(Hi)>>),
     JArr(<<JNum(1)>>)}

\* The JSON bodies of the model: a value as it is, a value under one
\* wrapper key, two wrapper keys in either order, and a wrapper key after
\* a plain key.
Payloads ==
    Records(MaxKeys) \cup FieldValues
    \cup {JObj(<<w>>, <<v>>) : w \in WrapperKeys, v \in Records(MaxKeys) \cup FieldValues}
    \cup {JObj(<<w[1], w[2]>>, <<v[1], v[2]>>) :
             w \in {x \in WrapperKeys \X WrapperKeys : x[1] # x[2]},
             v \in SmallValues \X SmallValues}
    \cup {JObj(<<KeyNames[1], w>>, <<JStr(Hi), v>>) : w \in WrapperKeys, v \in SmallValues}

\* The bodies the endpoint of a page with several blocks answers with.
PagePayloads == {JObj(<<>>, <<>>), JObj(<<Properties>>, <<JObj(<<KeyNames[1]>>, <<JStr(Hi)>>)>>)}

\* The bodies of an endpoint, by its name.
ServerBodies(name) == IF name = "page" THEN PagePayloads ELSE Payloads

Statuses == {200, 201, 301, 404, 500}

\* e.message of a rejected fetch and of a rejected resp.json()
FailedToFetch == <<"<Failed to fetch>">>

UnexpectedToken == <<"<Unexpected token>">>

\* ------------------------------------------------------------------------
\* State
\* ------------------------------------------------------------------------

VARIABLES
    instances,    \* the CF blocks of the page
    metaContent,  \* content of meta[name="cf-api-origin"], Null without one
    server,       \* which JSON bodies the endpoint answers with
    children,     \* children[b]: the block's child nodes
    classList,    \* classList[b]: the block's classes
    pc,           \* pc[b]: where decorate(b) stands
    productID,    \* the locals of decorate(b) and of its fetchCfData call
    url,
    absoluteUrl,
    resolvedUrl,
    status,
    bodyRead,
    data,
    result,
    requests,     \* the GET requests issued, in order
    arg,          \* SpecResolve: the argument of getCfJsonUrl,
    ret,          \* what it returned,
    ret2,         \* what it returned for ret,
    calls         \* and the calls made

page == <<instances, metaContent, server>>

dom == <<children, classList>>

locals == <<productID, url, absoluteUrl, resolvedUrl, status, bodyRead, data, result>>

resolver == <<arg, ret, ret2, calls>>

vars == <<page, dom, pc, locals, requests, resolver>>

NoResult == [data |-> JNull, error |-> Undefined]

\* The authored markup of a block: a row with one cell holding the
\* identifier as text or as a link.
Markup(id, asLink) ==
    <<Element("div", "", <<>>, <<>>,
        <<Element("div", "", IF asLink THEN <<>> ELSE id, <<>>,
            IF asLink THEN <<Element("a", "", id, id, <<>>)>> ELSE <<>>)>>)>>

InitBlocks(blocks, ids, bodies) ==
    /\ instances = blocks
    /\ metaContent \in MetaContents
    /\ server = bodies
    /\ children \in [blocks -> {Markup(id, l) : id \in ids, l \in BOOLEAN}]
    /\ classList = [b \in blocks |-> {"cf", "block"}]
    /\ pc = [b \in blocks |-> "start"]
    /\ productID = [b \in blocks |-> <<>>]
    /\ url = [b \in blocks |-> Null]
    /\ absoluteUrl = [b \in blocks |-> Null]
    /\ resolvedUrl = [b \in blocks |-> Null]
    /\ status = [b \in blocks |-> 0]
    /\ bodyRead = [b \in blocks |-> FALSE]
    /\ data = [b \in blocks |-> JNull]
    /\ result = [b \in blocks |-> NoResult]
    /\ requests = <<>>

\* getCfJsonUrl is not called on its own.
NoCalls == arg = <<>> /\ ret = Null /\ ret2 = Null /\ calls = 0

\* One block, any authored identifier, any body.
Init == InitBlocks({1}, PageIdentifiers, "any") /\ NoCalls

\* ------------------------------------------------------------------------
\* decorate (cf.js 158-202) and fetchCfData (cf.js 93-117), step by step
\* ------------------------------------------------------------------------

\* Lines 161-167 for block b
idOf(b) == readProductID(children[b])

urlOf(b) == getCfJsonUrl(idOf(b))

absoluteUrlOf(b) ==
    resolveAbsoluteUrl(urlOf(b), getCfApiOrigin(metaContent, PageOrigin))

\* Line 167 throws: the promise of decorate rejects, the block is untouched.
DecorateThrows(b) ==
    /\ pc[b] = "start"
    /\ absoluteUrlOf(b) = Thrown
    /\ pc' = [pc EXCEPT ![b] = "rejected"]
    /\ productID' = [productID EXCEPT ![b] = idOf(b)]
    /\ url' = [url EXCEPT ![b] = urlOf(b)]
    /\ UNCHANGED <<page, dom, absoluteUrl, resolvedUrl, status, bodyRead, data, result,
                   requests, resolver>>

\* Lines 169-177: no URL, the prompt.
DecoratePrompt(b) ==
    /\ pc[b] = "start"
    /\ absoluteUrlOf(b) = Null
    /\ pc' = [pc EXCEPT ![b] = "done"]
    /\ productID' = [productID EXCEPT ![b] = idOf(b)]
    /\ children' = [children EXCEPT ![b] = promptOutput]
    /\ classList' = [classList EXCEPT ![b] = @ \cup {"cf-empty"}]
    /\ UNCHANGED <<page, url, absoluteUrl, resolvedUrl, status, bodyRead, data, result,
                   requests, resolver>>

\* Lines 169, 179 and 94-96: the block is cleared and fetch is called;
\* decorate and fetchCfData suspend.
DecorateFetch(b) ==
    /\ pc[b] = "start"
    /\ absoluteUrlOf(b) \notin {Null, Thrown}
    /\ LET fetched == resolveFetchUrl(absoluteUrlOf(b), PageOrigin)
       IN  /\ pc' = [pc EXCEPT ![b] = IF fetched = Thrown THEN "rejected" ELSE "fetch"]
           /\ resolvedUrl' = [resolvedUrl EXCEPT ![b] = fetched]
           /\ requests' = IF fetched = Thrown THEN requests
                          ELSE Append(requests, [by |-> b, url |-> fetched])
    /\ productID' = [productID EXCEPT ![b] = idOf(b)]
    /\ url' = [url EXCEPT ![b] = urlOf(b)]
    /\ absoluteUrl' = [absoluteUrl EXCEPT ![b] = absoluteUrlOf(b)]
    /\ children' = [children EXCEPT ![b] = <<>>]
    /\ UNCHANGED <<page, classList, status, bodyRead, data, result, resolver>>

\* Lines 96, 111-115: fetch rejects.
FetchRejects(b) ==
    /\ pc[b] = "fetch"
    /\ pc' = [pc EXCEPT ![b] = "result"]
    /\ result' = [result EXCEPT ![b] = caughtFailure(FailedToFetch)]
    /\ UNCHANGED <<page, dom, productID, url, absoluteUrl, resolvedUrl, status, bodyRead,
                   data, requests, resolver>>

\* Lines 96-102: a response whose status is no success.
FetchRespondsNotOk(b) ==
    /\ pc[b] = "fetch"
    /\ \E st \in Statuses :
          /\ ~respOk(st)
          /\ status' = [status EXCEPT ![b] = st]
          /\ result' = [result EXCEPT ![b] = httpFailure(st, resolvedUrl[b])]
    /\ pc' = [pc EXCEPT ![b] = "result"]
    /\ UNCHANGED <<page, dom, productID, url, absoluteUrl, resolvedUrl, bodyRead, data,
                   requests, resolver>>

\* Lines 96-103: a success; resp.json() is called and fetchCfData suspends.
FetchRespondsOk(b) ==
    /\ pc[b] = "fetch"
    /\ \E st \in Statuses :
          /\ respOk(st)
          /\ status' = [status EXCEPT ![b] = st]
    /\ bodyRead' = [bodyRead EXCEPT ![b] = TRUE]
    /\ pc' = [pc EXCEPT ![b] = "json"]
    /\ UNCHANGED <<page, dom, productID, url, absoluteUrl, resolvedUrl, data, result,
                   requests, resolver>>

\* Lines 103-110: the body parses.
JsonResolves(b) ==
    /\ pc[b] = "json"
    /\ \E body \in ServerBodies(server) :
          /\ data' = [data EXCEPT ![b] = body]
          /\ result' = [result EXCEPT ![b] = extractData(body)]
    /\ pc' = [pc EXCEPT ![b] = "result"]
    /\ UNCHANGED <<page, dom, productID, url, absoluteUrl, resolvedUrl, status, bodyRead,
                   requests, resolver>>

\* Lines 103, 111-115: the body is no JSON.
JsonRejects(b) ==
    /\ pc[b] = "json"
    /\ pc' = [pc EXCEPT ![b] = "result"]
    /\ result' = [result EXCEPT ![b] = caughtFailure(UnexpectedToken)]
    /\ UNCHANGED <<page, dom, productID, url, absoluteUrl, resolvedUrl, status, bodyRead,
                   data, requests, resolver>>

\* Lines 179-196: decorate resumes without data.
DecorateError(b) ==
    /\ pc[b] = "result"
    /\ noData(result[b].data)
    /\ pc' = [pc EXCEPT ![b] = "done"]
    /\ classList' = [classList EXCEPT ![b] = @ \cup {"cf-error"}]
    /\ children' = [children EXCEPT ![b] = @ \o errorOutput(result[b], absoluteUrl[b])]
    /\ UNCHANGED <<page, locals, requests, resolver>>

\* Lines 179-182, 198-201: decorate resumes with data.
DecorateContent(b) ==
    /\ pc[b] = "result"
    /\ ~noData(result[b].data)
    /\ pc' = [pc EXCEPT ![b] = "done"]
    /\ children' = [children EXCEPT ![b] = @ \o contentOutput(result[b].data)]
    /\ UNCHANGED <<page, classList, locals, requests, resolver>>

Next ==
    \/ \E b \in instances : DecorateThrows(b)
    \/ \E b \in instances : DecoratePrompt(b)
    \/ \E b \in instances : DecorateFetch(b)
    \/ \E b \in instances : FetchRejects(b)
    \/ \E b \in instances : FetchRespondsNotOk(b)
    \/ \E b \in instances : FetchRespondsOk(b)
    \/ \E b \in instances : JsonResolves(b)
    \/ \E b \in instances : JsonRejects(b)
    \/ \E b \in instances : DecorateError(b)
    \/ \E b \in instances : DecorateContent(b)

Spec == Init /\ [][Next]_vars

\* ------------------------------------------------------------------------
\* A page with several blocks, whose render cycles interleave
\* ------------------------------------------------------------------------

InitPage ==
    InitBlocks(1..NumBlocks, {<<" ">>, Sku, damPrefix \o Sku}, "page") /\ NoCalls

SpecPage == InitPage /\ [][Next]_vars

\* ------------------------------------------------------------------------
\* getCfJsonUrl alone, on every enumerated identifier
\* ------------------------------------------------------------------------

InitResolve ==
    /\ InitBlocks({}, {}, "any")
    /\ metaContent = Null
    /\ arg \in Identifiers
    /\ ret = Null /\ ret2 = Null /\ calls = 0

CallGetCfJsonUrl ==
    /\ calls = 0
    /\ ret' = getCfJsonUrl(arg)
    /\ calls' = 1
    /\ UNCHANGED <<page, dom, pc, locals, requests, arg, ret2>>

\* The result is resolved once more.
CallAgain ==
    /\ calls = 1
    /\ ret2' = getCfJsonUrl(ret)
    /\ calls' = 2
    /\ UNCHANGED <<page, dom, pc, locals, requests, arg, ret>>

NextResolve == CallGetCfJsonUrl \/ CallAgain

SpecResolve == InitResolve /\ [][NextResolve]_vars

\* ------------------------------------------------------------------------
\* Properties
\* ------------------------------------------------------------------------

\* An absolute http or https URL.
IsAbsoluteUrl(s) == NewURL(s).ok

\* The identifier names a URL.
IsUrlIdentifier(p) ==
    \/ startsWith(toLowerCase(trim(p)), HttpScheme)
    \/ startsWith(toLowerCase(trim(p)), HttpsScheme)

\* The identifier holds the asset-content segment.
HasDamSegment(p) == includes(p, damPrefix)

\* decorate(b) has run to its first await or to its end.
Started(b) == pc[b] \in {"fetch", "json", "result", "done"}

\* resp.json() of block b resolved with data[b].
Parsed(b) ==
    /\ pc[b] \in {"result", "done"}
    /\ bodyRead[b]
    /\ ~startsWith(result[b].error, FetchErrorPrefix)

\* C1: an absolute URL whose path holds /content/dam/ resolves, through
\* getCfJsonUrl and decorate's origin resolution, to
\* {scheme}://{host}/api/assets/{remainder}.json with the scheme and host of
\* the input URL, the remainder being the path after the segment without a
\* trailing .model.json, the query and the fragment discarded.
C1_Original ==
    \A b \in instances :
        LET u == NewURL(trim(productID[b]))
        IN  (Started(b) /\ u.ok /\ includes(u.pathname, damPrefix))
            => absoluteUrl[b] = originOf(u) \o ApiAssets
                                \o stripModelJson(stripThroughDam(u.pathname)) \o DotJson

\* The endpoint C2 states: query, fragment and trailing slash removed, a
\* trailing .plain.html or .html removed in full, .model.json appended
\* unless it is there.
C2_Endpoint(p) ==
    LET path == stripTrailingSlashes(splitFirst(splitFirst(trim(p), "?"), "#"))
        stem == IF endsWith(toLowerCase(path), DotPlainHtml) THEN sliceEnd(path, 11)
                ELSE IF endsWith(toLowerCase(path), DotHtml) THEN sliceEnd(path, 5)
                ELSE path
    IN  IF endsWith(stem, DotModelJson) THEN stem
        ELSE stripModelJson(stem) \o DotModelJson

\* C2: an identifier without the /content/dam/ segment resolves to itself
\* with query, fragment and trailing slash removed, a trailing .html or
\* .plain.html removed in full and .model.json appended unless present.
C2_Original ==
    (calls >= 1 /\ trim(arg) # <<>> /\ ~HasDamSegment(arg)) => ret = C2_Endpoint(arg)

\* The asset-API shape: the path is /api/assets/{remainder}.json, and the
\* URL does not end in .model.json.
IsAssetApiShape(u) ==
    LET path == IF NewURL(u).ok THEN NewURL(u).pathname ELSE u
    IN  /\ u # Null
        /\ startsWith(path, ApiAssets)
        /\ endsWith(path, DotJson)
        /\ ~endsWith(u, DotModelJson)

\* C3: every non-empty identifier that holds the /content/dam/ segment
\* resolves to the asset-API shape, whatever suffix, slash, query or
\* fragment it carries, an empty remainder included.
C3_Original ==
    (calls >= 1 /\ trim(arg) # <<>> /\ HasDamSegment(arg)) => IsAssetApiShape(ret)

\* C4: every URL handed to fetch is absolute.
C4_Original ==
    \A i \in 1..Len(requests) : IsAbsoluteUrl(requests[i].url)

\* The value C5 selects: the one under the first wrapper key the payload
\* has, the payload itself without any.
C5_Selected(d) ==
    LET order == <<Properties, Model, Elements>>
        has == {i \in 1..3 : \E j \in 1..Len(d.k) : d.t = "object" /\ d.k[j] = order[i]}
    IN  IF has = {} THEN d ELSE getProperty(d, order[SetMin(has)])

\* C5 as stated: success with the selected value when it is an object with
\* a key, the failure 'empty response' without data in every other case.
C5_Original ==
    \A b \in instances :
        Parsed(b) =>
            LET sel == C5_Selected(data[b])
            IN  IF isObject(sel) /\ Len(objectKeys(sel)) > 0
                THEN result[b] = [data |-> sel, error |-> Undefined]
                ELSE result[b] = [data |-> JNull, error |-> EmptyResponse]

\* The value under the first wrapper key that holds something other than
\* null, the payload itself without any.
C5_FirstNonNull(d) ==
    LET order == <<Properties, Model, Elements>>
        has == {i \in 1..3 : \E j \in 1..Len(d.k) :
                   d.t = "object" /\ d.k[j] = order[i] /\ d.e[j].t # "null"}
    IN  IF has = {} THEN d ELSE getProperty(d, order[SetMin(has)])

\* C5, amended: fetchCfData selects the value under the first wrapper key
\* (properties, model, elements) whose value is not null, or the raw payload
\* without any; a selected scalar gives way to the raw payload; the result
\* is a success with exactly that value when the payload is an object or an
\* array and the value has a key, and the failure 'empty response' without
\* data otherwise.
C5_Amended ==
    \A b \in instances :
        Parsed(b) =>
            LET sel == C5_FirstNonNull(data[b])
                obj == IF sel.t \in {"object", "array"} THEN sel ELSE data[b]
            IN  IF data[b].t \in {"object", "array"} /\ objectKeys(obj) # <<>>
                THEN result[b].data = obj /\ result[b].error = Undefined
                ELSE result[b].data = JNull /\ result[b].error = EmptyResponse

\* A scalar under properties: the raw payload is the data.
C5_Witness ==
    \E b \in instances :
        /\ Parsed(b)
        /\ data[b] = JObj(<<Properties>>, <<JStr(Hi)>>)
        /\ result[b].data = data[b]

\* The three outputs of a finished render cycle.
ShowsPrompt(b) ==
    /\ "cf-empty" \in classList[b]
    /\ children[b] = <<Paragraph("", PromptMessage)>>

ShowsError(b) ==
    /\ "cf-error" \in classList[b]
    /\ children[b] # <<>>
    /\ children[b][1] = Paragraph("", ErrorMessage)

ShowsData(b) ==
    /\ Len(children[b]) = 1
    /\ children[b][1].cls = "cf-content"

\* C6: decorate never rejects; a finished cycle shows exactly one of the
\* prompt, the error and the data, and every failure shows the error.
C6_Original ==
    \A b \in instances :
        /\ pc[b] # "rejected"
        /\ pc[b] = "done" =>
              /\ Cardinality({o \in {"prompt", "error", "data"} :
                     \/ o = "prompt" /\ ShowsPrompt(b)
                     \/ o = "error" /\ ShowsError(b)
                     \/ o = "data" /\ ShowsData(b)}) = 1
              /\ result[b].error # Undefined => ShowsError(b)

\* C7: for a status that is no success, fetchCfData returns a failure
\* without data whose reason holds the status code and the resolved URL,
\* the body is not read, and decorate shows the error message, the reason
\* and the attempted URL.
C7_HttpFailure ==
    \A b \in instances :
        (pc[b] \in {"result", "done"} /\ status[b] # 0 /\ ~respOk(status[b])) =>
            /\ result[b].data = JNull
            /\ includes(result[b].error, Digits(status[b]))
            /\ status[b] = 404 => includes(result[b].error, <<"4", "0", "4">>)
            /\ includes(result[b].error, resolvedUrl[b])
            /\ ~bodyRead[b]
            /\ pc[b] = "done" =>
                  /\ "cf-error" \in classList[b]
                  /\ Len(children[b]) = 3
                  /\ children[b][1] = Paragraph("", ErrorMessage)
                  /\ children[b][2].cls = "cf-error-detail"
                  /\ includes(children[b][2].text, result[b].error)
                  /\ children[b][3].cls = "cf-error-url"
                  /\ endsWith(children[b][3].text, absoluteUrl[b])

\* A 404 shown as an error.
C7_Witness ==
    \E b \in instances :
        pc[b] = "done" /\ status[b] = 404 /\ "cf-error" \in classList[b]

\* C8: getCfJsonUrl is idempotent on identifiers that are no URL and hold
\* no asset-content segment, and returns a path that ends in .model.json,
\* with no query, fragment or surrounding blank, unchanged.
C8_Idempotent ==
    (~IsUrlIdentifier(arg) /\ ~HasDamSegment(arg)) =>
        /\ calls = 2 => ret2 = ret
        /\ (/\ calls >= 1
            /\ endsWith(arg, DotModelJson)
            /\ arg = trim(arg)
            /\ "?" \notin {arg[i] : i \in 1..Len(arg)}
            /\ "#" \notin {arg[i] : i \in 1..Len(arg)}) => ret = arg

\* A path with .html, a slash and a query, resolved twice.
C8_Witness ==
    /\ calls = 2
    /\ arg = UsPath \o Sku \o DotHtml \o <<"/">> \o <<"?", "q", "=", "1">>
    /\ ret = UsPath \o Sku \o DotModelJson
    /\ ret2 = ret

\* The keys of the record whose value renders to a text.
C9_Shown(rec) ==
    {i \in 1..Len(rec.e) : renderValue(rec.e[i]) # <<>>}

\* C9: the list holds one term and one definition per key whose rendered
\* text is not empty, in key order, none for a null, an empty string, an
\* empty list or an empty object; the definition is a link exactly when
\* the value is a string that starts with http or /.
C9_Entries ==
    \A b \in instances :
        (pc[b] = "done" /\ ShowsData(b)) =>
            LET rec == result[b].data
                keys == objectKeys(rec)
                shown == C9_Shown(rec)
                dl == children[b][1].kids[1]
                rank(i) == Cardinality({j \in shown : j <= i})
            IN  /\ dl.tag = "dl"
                /\ Len(dl.kids) = 2 * Cardinality(shown)
                /\ \A i \in 1..Len(rec.e) :
                      rec.e[i] \in {JNull, JStr(<<>>), JArr(<<>>), JObj(<<>>, <<>>)}
                          => i \notin shown
                /\ \A i \in shown :
                      LET dt == dl.kids[2 * rank(i) - 1]
                          dd == dl.kids[2 * rank(i)]
                          link == /\ rec.e[i].t = "string"
                                  /\ \/ /\ Len(rec.e[i].s) >= 4
                                        /\ \A j \in 1..4 : rec.e[i].s[j] = Http[j]
                                     \/ /\ Len(rec.e[i].s) >= 1
                                        /\ rec.e[i].s[1] = "/"
                      IN  /\ dt.tag = "dt" /\ dt.text = keys[i]
                          /\ dd.tag = "dd"
                          /\ IF link
                             THEN /\ Len(dd.kids) = 1
                                  /\ dd.kids[1].tag = "a"
                                  /\ dd.kids[1].href = rec.e[i].s
                                  /\ dd.kids[1].text = rec.e[i].s
                                  /\ dd.text = <<>>
                             ELSE /\ dd.kids = <<>>
                                  /\ dd.text = renderValue(rec.e[i])

\* {"title": "", "link": "/foo"}: the title is left out and the link is shown.
C9_Witness ==
    \E b \in instances :
        /\ pc[b] = "done"
        /\ ShowsData(b)
        /\ result[b].data = JObj(<<KeyNames[1], KeyNames[2]>>, <<JStr(<<>>), JStr(FooPath)>>)
        /\ Len(children[b][1].kids[1].kids) = 2

\* The GET requests block b issued.
RequestsBy(b) == {i \in 1..Len(requests) : requests[i].by = b}

\* C10: in every interleaving, a block that has left its start issued one
\* request when its identifier is not blank and none when it is (it shows
\* the prompt), and is cleared while its request is in flight.
C10_Original ==
    \A b \in instances :
        pc[b] # "start" =>
            /\ trim(productID[b]) # <<>> => Cardinality(RequestsBy(b)) = 1
            /\ trim(productID[b]) = <<>> =>
                  RequestsBy(b) = {} /\ pc[b] = "done" /\ ShowsPrompt(b)
            /\ pc[b] \in {"fetch", "json", "result"} => children[b] = <<>>

====
